---- MODULE Spec2Model ----
(***************************************************************************)
(* Model of ikpy's inverse_kinematic_optimization                          *)
(* (src/src/ikpy/inverse_kinematics.py).                                   *)
(*                                                                         *)
(* One behaviour is one call of inverse_kinematic_optimization.  The       *)
(* arguments are chosen in Init.  The chain's forward kinematics and its   *)
(* active/full conversions, scipy's minimize and the logger are            *)
(* collaborators: minimize is a black box that evaluates the objective     *)
(* some number of times and then returns or raises, the logger accepts a   *)
(* message or raises.                                                      *)
(*                                                                         *)
(* Real numbers are fixed-point integers in units of 1/Scale; a norm is    *)
(* the square root rounded down to that unit.  An optional value is a      *)
(* sequence: <<>> is Python's None, <<v>> is the value v.                  *)
(***************************************************************************)
EXTENDS Integers, Sequences, FiniteSets, TLC

VARIABLES chain, target_frame, starting_nodes_angles, regularization_parameter,
          max_iter, orientation_mode, pc, real_bounds, options, optimizer_calls,
          objective_evals, fk_calls, x0, x_eval, eval_out, res, log, result, error

vars == <<chain, target_frame, starting_nodes_angles, regularization_parameter,
          max_iter, orientation_mode, pc, real_bounds, options, optimizer_calls,
          objective_evals, fk_calls, x0, x_eval, eval_out, res, log, result, error>>

args == <<chain, target_frame, starting_nodes_angles, regularization_parameter,
          max_iter, orientation_mode>>

(* ------------------------------ bounds -------------------------------- *)

\* longest chain (number of links)
MaxLinks == 3

\* most objective evaluations the optimizer makes in one run
MaxEvals == 2

\* fixed-point resolution: one unit is 1/Scale
Scale == 100

(* ----------------------------- constants ------------------------------ *)

ORIENTATION_COEFF == 1

None == <<>>

Some(v) == <<v>>

\* "no bound" on one side of a link's bounds: Python's None
NoBound == None

(* ------------------------------ vectors ------------------------------- *)

RECURSIVE SumSq(_)
SumSq(v) == IF v = <<>> THEN 0 ELSE Head(v) * Head(v) + SumSq(Tail(v))

RECURSIVE ISqrt(_)
\* floor of the square root
ISqrt(n) ==
    IF n < 2 THEN n
    ELSE LET s == 2 * ISqrt(n \div 4)
         IN  IF (s + 1) * (s + 1) <= n THEN s + 1 ELSE s

\* np.linalg.norm of a flattened array, in units of 1/Scale
Norm(v) == ISqrt(SumSq(v) * Scale * Scale)

\* numpy's broadcasting rule for arrays of one dimension; a - b raises
\* ValueError when the shapes do not broadcast
Broadcastable(a, b) == Len(a) = Len(b) \/ Len(a) = 1 \/ Len(b) = 1

\* a - b on numpy arrays of one dimension whose shapes broadcast
NpSub(a, b) ==
    IF Len(a) = Len(b) THEN [i \in 1..Len(a) |-> a[i] - b[i]]
    ELSE IF Len(a) = 1 THEN [i \in 1..Len(b) |-> a[1] - b[i]]
    ELSE [i \in 1..Len(a) |-> a[i] - b[1]]

\* the entries of a sequence of columns, one after the other
RECURSIVE Flatten(_)
Flatten(cols) == IF cols = <<>> THEN <<>> ELSE Head(cols) \o Flatten(Tail(cols))

(* ------------------------------- chain -------------------------------- *)

\* positions of the active links, in link order
RECURSIVE ActiveIdx(_)
ActiveIdx(mask) ==
    IF mask = <<>> THEN <<>>
    ELSE LET init == ActiveIdx(SubSeq(mask, 1, Len(mask) - 1))
         IN  IF mask[Len(mask)] THEN Append(init, Len(mask)) ELSE init

NumActive(c) == Len(ActiveIdx(c.mask))

\* chain.active_from_full: keep the entries of the active links
active_from_full(c, joints) ==
    LET idx == ActiveIdx(c.mask) IN [k \in 1..Len(idx) |-> joints[idx[k]]]

\* chain.active_to_full: a copy of initial_position with the entries of the
\* active links replaced, in order, by active_joints
active_to_full(c, active_joints, initial_position) ==
    LET idx == ActiveIdx(c.mask)
        pos(i) == CHOOSE k \in 1..Len(idx) : idx[k] = i
    IN  [i \in 1..Len(initial_position) |->
            IF c.mask[i] THEN active_joints[pos(i)] ELSE initial_position[i]]

\* chain.first_active_joint, as a 1-based position
first_active_joint(c) == ActiveIdx(c.mask)[1]

\* starting_nodes_angles[chain.first_active_joint:]
SliceFromFirstActive(c, full) == SubSeq(full, first_active_joint(c), Len(full))

(* ------------------------ forward kinematics -------------------------- *)

RECURSIVE Sum(_)
Sum(v) == IF v = <<>> THEN 0 ELSE Head(v) + Sum(Tail(v))

RECURSIVE WSum(_)
WSum(v) == IF v = <<>> THEN 0 ELSE Len(v) * v[Len(v)] + WSum(SubSeq(v, 1, Len(v) - 1))

\* rotation blocks as three columns: identity, Rz(90), Rx(90), Ry(90)
Rotations ==
    << << <<1, 0, 0>>, <<0, 1, 0>>, <<0, 0, 1>> >>,
       << <<0, 1, 0>>, <<-1, 0, 0>>, <<0, 0, 1>> >>,
       << <<1, 0, 0>>, <<0, 0, 1>>, <<0, -1, 0>> >>,
       << <<0, 0, -1>>, <<0, 1, 0>>, <<1, 0, 0>> >> >>

\* the top three rows of a 4x4 homogeneous transform, as four columns
Frame(rot, trans) == <<rot[1], rot[2], rot[3], trans>>

\* chain.forward_kinematics: a deterministic function of the full vector
forward_kinematics(y) ==
    Frame(Rotations[(WSum(y) % 4) + 1], <<2 * Sum(y), WSum(y), 0>>)

\* frame[:3, c] for a 0-based column c; frame[:3, -1] is Col(frame, 3)
Col(frame, c) == frame[c + 1]

\* frame[:3, :3]
RotBlock(frame) == Flatten(SubSeq(frame, 1, 3))

(* ----------------------------- objective ------------------------------ *)

\* optimize_target_function: y and the distance to the target position
optimize_target_function(c, tf, start, x) ==
    LET y == active_to_full(c, x, start)
    IN  [y |-> y, dist |-> Norm(NpSub(Col(forward_kinematics(y), 3), Col(tf, 3)))]

\* the slice of the target frame that the mode selects
orientation(tf, mode) ==
    CASE mode = "X" -> Col(tf, 0)
      [] mode = "Y" -> Col(tf, 1)
      [] mode = "Z" -> Col(tf, 2)
      [] mode = "all" -> RotBlock(tf)

\* variant: mode X reads column 1 of the computed pose
get_orientation_swapped(mode, y) ==
    CASE mode = "X" -> Col(forward_kinematics(y), 1)
      [] mode = "Y" -> Col(forward_kinematics(y), 1)
      [] mode = "Z" -> Col(forward_kinematics(y), 2)
      [] mode = "all" -> RotBlock(forward_kinematics(y))

\* the slice of the computed pose that the mode selects
get_orientation(mode, y) ==
    CASE mode = "X" -> Col(forward_kinematics(y), 0)
      [] mode = "Y" -> Col(forward_kinematics(y), 1)
      [] mode = "Z" -> Col(forward_kinematics(y), 2)
      [] mode = "all" -> RotBlock(forward_kinematics(y))

\* variant: the orientation is read from the pose already computed for the
\* position, so forward_kinematics runs once
optimize_function_one_pose(c, tf, start, mode, x) ==
    LET t == optimize_target_function(c, tf, start, x)
    IN  IF mode = "None"
        THEN [val |-> t.dist, pos |-> t.dist, ori |-> 0, fk |-> 1]
        ELSE LET o == Norm(NpSub(get_orientation(mode, t.y), orientation(tf, mode)))
             IN  [val |-> t.dist + ORIENTATION_COEFF * o,
                  pos |-> t.dist, ori |-> o, fk |-> 1]

\* optimize_function: value, its two terms, and the number of
\* forward_kinematics calls made
optimize_function(c, tf, start, mode, x) ==
    LET t == optimize_target_function(c, tf, start, x)
    IN  IF mode = "None"
        THEN [val |-> t.dist, pos |-> t.dist, ori |-> 0, fk |-> 1]
        ELSE LET o == Norm(NpSub(get_orientation(mode, t.y), orientation(tf, mode)))
             IN  [val |-> t.dist + ORIENTATION_COEFF * o,
                  pos |-> t.dist, ori |-> o, fk |-> 2]

\* the reference vector of the regularization term
RegReference(c, start) == SliceFromFirstActive(c, start)

\* optimize_total: the objective handed to the optimizer
optimize_total(c, tf, start, mode, reg, x) ==
    IF reg = None
    THEN LET f == optimize_function(c, tf, start, mode, x)
         IN  [kind |-> "value", val |-> f.val, pos |-> f.pos, ori |-> f.ori,
              reg |-> 0, fk |-> f.fk]
    ELSE LET d == NpSub(x, RegReference(c, start))
         IN  IF ~Broadcastable(x, RegReference(c, start))
             THEN [kind |-> "raise", val |-> 0, pos |-> 0, ori |-> 0,
                   reg |-> 0, fk |-> 0]
             ELSE LET f == optimize_function(c, tf, start, mode, x)
                  IN  [kind |-> "value", val |-> f.val + reg[1] * Norm(d),
                       pos |-> f.pos, ori |-> f.ori, reg |-> Norm(d), fk |-> f.fk]

NoEval == [kind |-> "none", val |-> 0, pos |-> 0, ori |-> 0, reg |-> 0, fk |-> 0]

(* ------------------------------ bounds -------------------------------- *)

\* variant: the bounds from the first active link on (the slice of line 100)
RealBoundsSliced(c) == SliceFromFirstActive(c, c.bounds)

\* real_bounds: one pair per active joint
RealBounds(c) == active_from_full(c, c.bounds)

InBound(v, b) ==
    /\ IF b[1] = NoBound THEN TRUE ELSE b[1][1] <= v
    /\ IF b[2] = NoBound THEN TRUE ELSE v <= b[2][1]

(* ------------------------------ inputs -------------------------------- *)

Angles == {0, 1}

Vectors(n) == [1..n -> Angles]

\* starting configurations: constant and alternating vectors
StartVectors(n) ==
    {[i \in 1..n |-> a] : a \in Angles} \cup {[i \in 1..n |-> (i + a) % 2] : a \in Angles}

Masks == UNION {{m \in [1..n -> BOOLEAN] : \E i \in 1..n : m[i]} : n \in 1..MaxLinks}

BoundPattern == << <<NoBound, NoBound>>, <<Some(1), NoBound>>, <<NoBound, Some(0)>> >>

\* link bounds: the pattern, starting at position shift
LinkBounds(n, shift) == [i \in 1..n |-> BoundPattern[((i + shift) % 3) + 1]]

Chains == {[mask |-> m, bounds |-> LinkBounds(Len(m), s)] : m \in Masks, s \in 0..2}

TargetFrames == {Frame(Rotations[1], <<0, 0, 0>>), Frame(Rotations[2], <<2, 2, 0>>)}

Modes == {"None", "X", "Y", "Z", "all", "W"}

\* variant: "W" is taken for a known mode
KnownModesLax == {"X", "Y", "Z", "all", "W"}

KnownModes == {"X", "Y", "Z", "all"}

RegParams == {None, Some(2)}

MaxIters == {None, Some(1)}

(* ------------------------------ actions ------------------------------- *)

Init ==
    /\ chain \in Chains
    /\ target_frame \in TargetFrames
    /\ starting_nodes_angles \in {None} \cup {Some(v) : v \in StartVectors(Len(chain.mask))}
    /\ regularization_parameter \in RegParams
    /\ max_iter \in MaxIters
    /\ orientation_mode \in Modes
    /\ pc = "entry"
    /\ real_bounds = <<>>
    /\ options = None
    /\ optimizer_calls = 0
    /\ objective_evals = 0
    /\ fk_calls = 0
    /\ x0 = <<>>
    /\ x_eval = <<>>
    /\ eval_out = NoEval
    /\ res = None
    /\ log = <<>>
    /\ result = None
    /\ error = ""

\* line 76: the mode is neither None nor one of X, Y, Z, all
RaiseUnknownMode ==
    /\ pc = "entry"
    /\ orientation_mode /= "None"
    /\ orientation_mode \notin KnownModes
    /\ pc' = "raised"
    /\ error' = "ValueError: Unknown orientation mode"
    /\ UNCHANGED <<args, real_bounds, options, optimizer_calls, objective_evals,
                   fk_calls, x0, x_eval, eval_out, res, log, result>>

\* line 88: no starting configuration
RaiseMissingStart ==
    /\ pc = "entry"
    /\ orientation_mode \in {"None"} \cup KnownModes
    /\ starting_nodes_angles = None
    /\ pc' = "raised"
    /\ error' = "ValueError: starting_nodes_angles must be specified"
    /\ UNCHANGED <<args, real_bounds, options, optimizer_calls, objective_evals,
                   fk_calls, x0, x_eval, eval_out, res, log, result>>

\* lines 98-109: bounds, options, and the call of scipy.optimize.minimize
CallMinimize ==
    /\ pc = "entry"
    /\ orientation_mode \in {"None"} \cup KnownModes
    /\ starting_nodes_angles /= None
    /\ real_bounds' = RealBounds(chain)
    /\ options' = max_iter
    /\ x0' = active_from_full(chain, starting_nodes_angles[1])
    /\ optimizer_calls' = optimizer_calls + 1
    /\ pc' = "minimize"
    /\ UNCHANGED <<args, objective_evals, fk_calls, x_eval, eval_out, res, log,
                   result, error>>

\* the optimizer evaluates the objective at some x; an exception raised by
\* the objective leaves minimize and the solve unchanged
OptEvaluate ==
    /\ pc = "minimize"
    /\ objective_evals < MaxEvals
    /\ \E x \in Vectors(NumActive(chain)) :
         \E out \in {optimize_total(chain, target_frame, starting_nodes_angles[1],
                                    orientation_mode, regularization_parameter, x)} :
             /\ x_eval' = x
             /\ eval_out' = out
             /\ objective_evals' = objective_evals + 1
             /\ fk_calls' = fk_calls + out.fk
             /\ IF out.kind = "raise"
                THEN pc' = "raised" /\ error' = "ValueError: operands could not be broadcast"
                ELSE pc' = "minimize" /\ error' = error
    /\ UNCHANGED <<args, real_bounds, options, optimizer_calls, x0, res, log, result>>

\* the optimizer returns its current iterate, which lies inside the bounds it
\* was given, converged or not, after at most maxiter iterations
OptReturn ==
    /\ pc = "minimize"
    /\ objective_evals >= 1
    /\ \A k \in 1..Len(x_eval) : InBound(x_eval[k], real_bounds[k])
    /\ \E ok \in BOOLEAN :
         res' = Some([x |-> x_eval, fun |-> eval_out.val, success |-> ok,
                      nit |-> IF options /= None /\ options[1] < objective_evals
                              THEN options[1] ELSE objective_evals])
    /\ pc' = "emit"
    /\ UNCHANGED <<args, real_bounds, options, optimizer_calls, objective_evals,
                   fk_calls, x0, x_eval, eval_out, log, result, error>>

\* variant: a failed run is retried once
OptRaiseRetry ==
    /\ pc = "minimize"
    /\ optimizer_calls < 2
    /\ optimizer_calls' = optimizer_calls + 1
    /\ UNCHANGED <<args, pc, real_bounds, options, objective_evals, fk_calls, x0,
                   x_eval, eval_out, res, log, result, error>>

\* the optimizer itself fails; the exception leaves the solve unchanged
OptRaise ==
    /\ pc = "minimize"
    /\ pc' = "raised"
    /\ error' = "OptimizationFailure"
    /\ UNCHANGED <<args, real_bounds, options, optimizer_calls, objective_evals,
                   fk_calls, x0, x_eval, eval_out, res, log, result>>

\* variant: the result is rebuilt as on line 114, the entries before the
\* first active link followed by the optimizer's vector
LogAndReturnAppend ==
    /\ pc = "emit"
    /\ log' = Append(log, <<"Inverse kinematic optimisation OK", res[1].nit>>)
    /\ result' = Some(SubSeq(starting_nodes_angles[1], 1, first_active_joint(chain) - 1)
                         \o res[1].x)
    /\ pc' = "done"
    /\ UNCHANGED <<args, real_bounds, options, optimizer_calls, objective_evals,
                   fk_calls, x0, x_eval, eval_out, res, error>>

\* lines 111-113: the logger accepts the message, the merged vector is returned
LogAndReturn ==
    /\ pc = "emit"
    /\ log' = Append(log, <<"Inverse kinematic optimisation OK", res[1].nit>>)
    /\ result' = Some(active_to_full(chain, res[1].x, starting_nodes_angles[1]))
    /\ pc' = "done"
    /\ UNCHANGED <<args, real_bounds, options, optimizer_calls, objective_evals,
                   fk_calls, x0, x_eval, eval_out, res, error>>

\* line 111: the logger raises; nothing catches it
LogRaise ==
    /\ pc = "emit"
    /\ pc' = "raised"
    /\ error' = "SinkFailure"
    /\ UNCHANGED <<args, real_bounds, options, optimizer_calls, objective_evals,
                   fk_calls, x0, x_eval, eval_out, res, log, result>>

Next ==
    \/ RaiseUnknownMode
    \/ RaiseMissingStart
    \/ CallMinimize
    \/ OptEvaluate
    \/ OptReturn
    \/ OptRaise
    \/ LogAndReturn
    \/ LogRaise

Spec == Init /\ [][Next]_vars

TypeOK ==
    /\ pc \in {"entry", "minimize", "emit", "done", "raised"}
    /\ optimizer_calls \in 0..1
    /\ objective_evals \in 0..MaxEvals

(* ------------------------------ claims -------------------------------- *)

\* the number of active links among the first i links
ActiveRank(mask, i) == Cardinality({j \in 1..i : mask[j]})

\* the link that holds the k-th active joint
KthActive(mask, k) == CHOOSE i \in 1..Len(mask) : mask[i] /\ ActiveRank(mask, i) = k

\* some fixed link comes after the first active link
FixedAfterActive(mask) == \E i, j \in 1..Len(mask) : i < j /\ mask[i] /\ ~mask[j]

ValueErrors == {"ValueError: Unknown orientation mode",
                "ValueError: starting_nodes_angles must be specified"}

\* C1: a call without a starting configuration, or with an orientation mode
\* that is not None, X, Y, Z or all, fails with a ValueError and never calls
\* the optimizer, the objective or forward kinematics.
C1_InvalidArgument ==
    (starting_nodes_angles = None \/ orientation_mode \notin {"None", "X", "Y", "Z", "all"})
        => /\ pc \in {"entry", "raised"}
           /\ pc = "raised" => error \in ValueErrors
           /\ optimizer_calls = 0
           /\ objective_evals = 0
           /\ fk_calls = 0
           /\ res = None
           /\ result = None

C1_Witness ==
    /\ pc = "raised"
    /\ orientation_mode = "W"
    /\ starting_nodes_angles /= None
    /\ error = "ValueError: Unknown orientation mode"

\* C2: the vector a successful solve returns has the length of
\* starting_nodes_angles, equals it at every link that is not active, and
\* holds at the active links, in order, the optimizer's vector.
C2_ResultIsMerge ==
    pc = "done" =>
        /\ result /= None
        /\ Len(result[1]) = Len(starting_nodes_angles[1])
        /\ \A i \in 1..Len(starting_nodes_angles[1]) :
             result[1][i] = IF chain.mask[i]
                            THEN res[1].x[ActiveRank(chain.mask, i)]
                            ELSE starting_nodes_angles[1][i]

C2_Witness ==
    /\ pc = "done"
    /\ FixedAfterActive(chain.mask)
    /\ NumActive(chain) >= 2
    /\ res[1].x /= x0
    /\ result[1] /= starting_nodes_angles[1]

\* C3: the optimizer is given one bound pair per active joint, in the order
\* of the initial guess, and every active entry of the returned solution lies
\* within the bounds of its own link; an absent bound limits nothing.
C3_WithinBounds ==
    /\ pc \in {"minimize", "emit", "done"} =>
         /\ Len(real_bounds) = Len(x0)
         /\ \A k \in 1..Len(x0) :
              /\ real_bounds[k] = chain.bounds[KthActive(chain.mask, k)]
              /\ x0[k] = starting_nodes_angles[1][KthActive(chain.mask, k)]
    /\ pc = "done" =>
         \A i \in 1..Len(chain.mask) :
            chain.mask[i] =>
               /\ chain.bounds[i][1] /= None => chain.bounds[i][1][1] <= result[1][i]
               /\ chain.bounds[i][2] /= None => result[1][i] <= chain.bounds[i][2][1]

C3_Witness ==
    /\ pc = "done"
    /\ FixedAfterActive(chain.mask)
    /\ NumActive(chain) >= 2
    /\ \E i \in 1..Len(chain.mask) : chain.mask[i] /\ chain.bounds[i][1] /= None
    /\ \E i \in 1..Len(chain.mask) : chain.mask[i] /\ chain.bounds[i][2] /= None

\* C4: once the optimizer has returned without converging, the solve returns
\* the merged vector and raises nothing.
C4_NonConvergenceReturns ==
    (res /= None /\ ~res[1].success /\ pc /= "emit")
        => /\ pc = "done"
           /\ error = ""
           /\ result = Some(active_to_full(chain, res[1].x, starting_nodes_angles[1]))

\* C5: a solve calls the optimizer at most once, and exactly once when its
\* arguments are valid; when the optimizer raises, the error reaches the
\* caller, nothing is logged and nothing is returned.
C5_SingleRun ==
    /\ optimizer_calls <= 1
    /\ (/\ pc /= "entry"
        /\ starting_nodes_angles /= None
        /\ orientation_mode \in {"None", "X", "Y", "Z", "all"}) => optimizer_calls = 1
    /\ (pc = "raised" /\ res = None) => (log = <<>> /\ result = None)
    /\ error = "OptimizationFailure" =>
         (pc = "raised" /\ optimizer_calls = 1 /\ log = <<>> /\ result = None)

C5_Witness ==
    /\ pc = "raised"
    /\ error = "OptimizationFailure"
    /\ objective_evals >= 1

\* C6: once the optimizer has returned, the solve returns the merged vector
\* whether the logger accepted the message or raised.
C6_SinkIndependent ==
    (res /= None /\ pc /= "emit")
        => result = Some(active_to_full(chain, res[1].x, starting_nodes_angles[1]))

\* the pose the objective computes at the last evaluated x
PoseAtEval ==
    forward_kinematics(active_to_full(chain, x_eval, starting_nodes_angles[1]))

Diff3(a, b) == <<a[1] - b[1], a[2] - b[2], a[3] - b[3]>>

\* the sum of squares that the mode's orientation error is the root of
OrientationSumSq ==
    CASE orientation_mode = "None" -> 0
      [] orientation_mode = "X" -> SumSq(Diff3(PoseAtEval[1], target_frame[1]))
      [] orientation_mode = "Y" -> SumSq(Diff3(PoseAtEval[2], target_frame[2]))
      [] orientation_mode = "Z" -> SumSq(Diff3(PoseAtEval[3], target_frame[3]))
      [] orientation_mode = "all" ->
            SumSq(Diff3(PoseAtEval[1], target_frame[1]))
          + SumSq(Diff3(PoseAtEval[2], target_frame[2]))
          + SumSq(Diff3(PoseAtEval[3], target_frame[3]))

\* C7: without regularization the objective is the squared position error
\* plus ORIENTATION_COEFF times the squared orientation error.
C7_SquaredTerms ==
    (eval_out.kind = "value" /\ regularization_parameter = None)
        => eval_out.val = Scale * (SumSq(Diff3(PoseAtEval[4], target_frame[4]))
                                   + ORIENTATION_COEFF * OrientationSumSq)

\* C8: with regularization the objective is the objective without it plus
\* the weight times the norm of x - active_from_full(starting_nodes_angles),
\* for every chain; the evaluation never raises.
C8_RegularizationOnActive ==
    (eval_out.kind /= "none" /\ regularization_parameter /= None)
        => /\ eval_out.kind = "value"
           /\ eval_out.val =
                optimize_function(chain, target_frame, starting_nodes_angles[1],
                                  orientation_mode, x_eval).val
                + regularization_parameter[1]
                  * Norm(NpSub(x_eval, active_from_full(chain, starting_nodes_angles[1])))

\* the orientation error is the norm of the difference of the slices that
\* the mode names, the same slice of the pose and of the target; mode None
\* has no orientation term and the target's rotation block has no effect
C9_Slices ==
    eval_out.kind = "value" =>
        /\ eval_out.ori = ISqrt(OrientationSumSq * Scale * Scale)
        /\ orientation_mode = "None" =>
             \A r \in 1..Len(Rotations) :
                optimize_total(chain, Frame(Rotations[r], target_frame[4]),
                               starting_nodes_angles[1], orientation_mode,
                               regularization_parameter, x_eval).val = eval_out.val

\* C9: the orientation mode never changes during a solve, and it selects the
\* same slice of the computed pose and of the target: column 0 for X, 1 for
\* Y, 2 for Z, the whole rotation block for all, nothing for None.
C9_ModeSelectsSlices == [](C9_Slices) /\ [][orientation_mode' = orientation_mode]_vars

C9_Witness ==
    /\ eval_out.kind = "value"
    /\ orientation_mode = "X"
    /\ eval_out.ori > 0
    /\ SumSq(Diff3(PoseAtEval[1], target_frame[1]))
         /= SumSq(Diff3(PoseAtEval[2], target_frame[2]))

\* C10 as stated: every evaluation of the objective calls forward kinematics
\* exactly once.
C10_OneCallPerEval ==
    [][objective_evals' = objective_evals + 1 => fk_calls' = fk_calls + 1]_vars

\* C10, amended: an evaluation of the objective calls forward kinematics once
\* in mode None and twice in modes X, Y, Z and all, and not at all when the
\* regularization term raises; it changes nothing else of the solve.
C10_CallsPerEval ==
    [][objective_evals' = objective_evals + 1 =>
          /\ fk_calls' = fk_calls + (IF pc' = "raised" THEN 0
                                     ELSE IF orientation_mode = "None" THEN 1 ELSE 2)
          /\ UNCHANGED <<args, real_bounds, options, optimizer_calls, x0, res, log,
                         result>>]_vars

C10_Witness ==
    /\ objective_evals = 1
    /\ fk_calls = 2
    /\ eval_out.kind = "value"
    /\ orientation_mode = "all"
    /\ regularization_parameter /= None
====
